---- MODULE Spec2Model ----
(***************************************************************************)
(* Stock and balance consistency of the shop ledger: purchase lots,        *)
(* income (cash sales), debts (credit sales) and debt repayments, as the   *)
(* request handlers of src/routes read and write them through src/db.js.   *)
(*                                                                         *)
(* Money and piece counts are integers.  A request body field that is      *)
(* absent (undefined) is the empty sequence <<>>, a present field v is     *)
(* <<v>>.  A date is a day number; payment_date is taken as present.       *)
(* Columns no modelled handler reads back (descriptions, signatures,       *)
(* client and seller names, receipt numbers, image paths, total_amount)    *)
(* are left out of the rows.                                               *)
(*                                                                         *)
(* The store answers every call (no failed query).  SpecLot, SpecStock,    *)
(* SpecRepay and SpecBalance run the handlers one request after another,   *)
(* each handler as one step; SpecConc runs two sale creations with their   *)
(* store calls interleaved.  SpecAlerts and SpecGain add the two reports   *)
(* computed from the tables, deficiency alerts and gain/loss.              *)
(***************************************************************************)
EXTENDS Integers, Sequences, FiniteSets, TLC

\* ------------------------------------------------------------------ bounds
MaxLots == 2
MaxLotPcs == 2
MaxPcs == 2
MaxIncome == 1
MaxDebts == 2
MaxRepayments == 2
MaxAmount == 2
MaxDate == 2
MaxPrice == 2
MaxThreshold == 2
NumReq == 2

Names == {"a", "b"}
LotPcsInputs == 1..MaxLotPcs
PcsInputs == (-1)..MaxPcs
AmountInputs == (-1)..MaxAmount
Dates == 1..MaxDate
PriceInputs == 0..MaxPrice
ThresholdInputs == (-1)..MaxThreshold

Opt(S) == {<<>>} \cup {<<v>> : v \in S}

\* ------------------------------------------------------------------ state
VARIABLES
  purchases,        \* table purchases: id -> [date, name, pcs, unit_price, available_stock,
                    \*                         stock_deficiency_threshold]
  income,           \* table income: id -> [date, name, pcs, unit_price, total_price]
  debts,            \* table debts: id -> [date, name, pcs, unit_price, total_price,
                    \*                     amount_payable_now, balance_owed]
  debt_repayments,  \* table debt_repayments: id -> [debt_id, amount]
  lastID,           \* per table, the last id its serial column handed out
  res,              \* the response to the latest request, with the request it answers
  reqs              \* requests in flight, each with its handler's position and locals

vars == <<purchases, income, debts, debt_repayments, lastID, res, reqs>>
tables == <<purchases, income, debts, debt_repayments, lastID>>

\* ------------------------------------------------------------------ store
NoRow == 0

Max(S) == CHOOSE x \in S : \A y \in S : y <= x

\* INSERT: the row gets the next id of the table's serial column
Insert(t, id, row) == t @@ (id :> row)

\* DELETE FROM t WHERE id = ?
Delete(t, id) == [i \in DOMAIN t \ {id} |-> t[i]]

\* a lookup that takes the lowest-id lot of the name (ORDER BY id ASC)
LotByName_LowestId(p, name) ==
  LET ids == {i \in DOMAIN p : p[i].name = name}
  IN IF ids = {} THEN NoRow ELSE CHOOSE i \in ids : \A j \in ids : i <= j

\* SELECT id, available_stock FROM purchases WHERE name = ? ORDER BY id DESC LIMIT 1
LotByName(p, name) ==
  LET ids == {i \in DOMAIN p : p[i].name = name}
  IN IF ids = {} THEN NoRow ELSE Max(ids)

\* ------------------------------------------------------------------ conversions
\* !x of a numeric body field: 0 (and an absent field) is falsy, every other number truthy
Falsy(x) == x = 0

\* parseInt(x) || 0 and parseFloat(x) || 0: NaN (an absent field) and 0 become 0
NumOrZero(o) == IF o = <<>> THEN 0 ELSE o[1]

\* x !== undefined ? parseFloat(x) : fallback
NumOrElse(o, fallback) == IF o = <<>> THEN fallback ELSE o[1]

\* x || fallback of a name: an absent name keeps the stored one (COALESCE(?, name))
NameOrElse(o, fallback) == IF o = <<>> THEN fallback ELSE o[1]

Max0(x) == IF x < 0 THEN 0 ELSE x

EmptyTable == <<>>

Init ==
  /\ purchases = EmptyTable
  /\ income = EmptyTable
  /\ debts = EmptyTable
  /\ debt_repayments = EmptyTable
  /\ lastID = [purchases |-> 0, income |-> 0, debts |-> 0, debt_repayments |-> 0]
  /\ res = [op |-> "none", status |-> "none"]
  /\ reqs = <<>>

\* ------------------------------------------------------------------ purchases
\* POST /purchases: available_stock starts at pcs, stock_deficiency_threshold at its
\* column default 0
CreatePurchase(date, name, pcs, unit_price) ==
  /\ UNCHANGED <<income, debts, debt_repayments, reqs>>
  /\ IF Falsy(pcs) \/ Falsy(unit_price)
     THEN /\ res' = [op |-> "createPurchase", status |-> "ValidationError"]
          /\ UNCHANGED <<purchases, lastID>>
     ELSE /\ lastID.purchases < MaxLots
          /\ LET id == lastID.purchases + 1
             IN /\ purchases' = Insert(purchases, id,
                                       [date |-> date, name |-> name, pcs |-> pcs,
                                        unit_price |-> unit_price, available_stock |-> pcs,
                                        stock_deficiency_threshold |-> 0])
                /\ lastID' = [lastID EXCEPT !.purchases = id]
                /\ res' = [op |-> "createPurchase", status |-> "ok", id |-> id]

\* DELETE /purchases/:id
DeletePurchase(id) ==
  /\ UNCHANGED <<income, debts, debt_repayments, lastID, reqs>>
  /\ IF id \notin DOMAIN purchases
     THEN /\ res' = [op |-> "deletePurchase", status |-> "NotFound", id |-> id]
          /\ UNCHANGED purchases
     ELSE /\ purchases' = Delete(purchases, id)
          /\ res' = [op |-> "deletePurchase", status |-> "ok", id |-> id]

\* ------------------------------------------------------------------ stock rules
\* a stock check that lets one piece too many through
InsufficientStock_OffByOne(salePcs, currentStock) == salePcs > currentStock + 1

\* salePcs > currentStock
InsufficientStock(salePcs, currentStock) == salePcs > currentStock

\* newStock = currentStock - salePcs; UPDATE purchases SET available_stock = newStock WHERE id = lot
DeductStock(p, lot, currentStock, salePcs) ==
  [p EXCEPT ![lot].available_stock = currentStock - salePcs]

\* a restore that picks the lowest-id lot of the name (ORDER BY id ASC)
RestoreStock_OldestLot(p, name, pcs) ==
  LET ids == {i \in DOMAIN p : p[i].name = name}
      lot == CHOOSE i \in ids : \A j \in ids : i <= j
  IN IF ids = {} THEN p
     ELSE [p EXCEPT ![lot].available_stock = p[lot].available_stock + pcs]

\* restoredStock = inventoryItem.available_stock + record.pcs, when a lot of that name exists
RestoreStock(p, name, pcs) ==
  LET lot == LotByName(p, name)
  IN IF lot = NoRow THEN p
     ELSE [p EXCEPT ![lot].available_stock = p[lot].available_stock + pcs]

\* ------------------------------------------------------------------ income
\* POST /income
CreateIncome(date, name, pcs, unit_price) ==
  LET req == [op |-> "createIncome", name |-> name, pcs |-> pcs]
      total_price == pcs * unit_price
      lot == LotByName(purchases, name)
  IN
  /\ UNCHANGED <<debts, debt_repayments, reqs>>
  /\ IF Falsy(pcs) \/ Falsy(unit_price)
     THEN /\ res' = req @@ [status |-> "ValidationError"]
          /\ UNCHANGED <<purchases, income, lastID>>
     ELSE IF lot = NoRow
     THEN /\ res' = req @@ [status |-> "ItemNotFound"]
          /\ UNCHANGED <<purchases, income, lastID>>
     ELSE LET salePcs == NumOrZero(<<pcs>>)
              currentStock == NumOrZero(<<purchases[lot].available_stock>>)
          IN IF InsufficientStock(salePcs, currentStock)
             THEN /\ res' = req @@ [status |-> "InsufficientStock"]
                  /\ UNCHANGED <<purchases, income, lastID>>
             ELSE /\ lastID.income < MaxIncome
                  /\ LET id == lastID.income + 1
                     IN /\ income' = Insert(income, id,
                                            [date |-> date, name |-> name, pcs |-> pcs,
                                             unit_price |-> unit_price,
                                             total_price |-> total_price])
                        /\ lastID' = [lastID EXCEPT !.income = id]
                        /\ purchases' = DeductStock(purchases, lot, currentStock, salePcs)
                        /\ res' = req @@ [status |-> "ok", id |-> id, lot |-> lot]

\* an income update that moves the difference in pcs to the lot of the row's name
UpdateIncome_Resync(id, name, pcs, unit_price) ==
  LET req == [op |-> "updateIncome", id |-> id, name |-> name, pcs |-> pcs]
  IN
  /\ UNCHANGED <<debts, debt_repayments, lastID, reqs>>
  /\ IF id \notin DOMAIN income
     THEN /\ res' = req @@ [status |-> "NotFound"]
          /\ UNCHANGED <<purchases, income>>
     ELSE LET record == income[id]
              finalPcs == NumOrElse(pcs, record.pcs)
              finalUnitPrice == NumOrElse(unit_price, record.unit_price)
          IN /\ income' = [income EXCEPT ![id] =
                             [date |-> record.date,
                              name |-> NameOrElse(name, record.name),
                              pcs |-> finalPcs,
                              unit_price |-> finalUnitPrice,
                              total_price |-> finalPcs * finalUnitPrice]]
             /\ purchases' = RestoreStock(purchases, record.name, record.pcs - finalPcs)
             /\ res' = req @@ [status |-> "ok", record |-> record]

\* PUT /income/:id with no date in the body: total_price is recomputed from the new or
\* the stored pcs and unit_price; no lot is read or written
UpdateIncome(id, name, pcs, unit_price) ==
  LET req == [op |-> "updateIncome", id |-> id, name |-> name, pcs |-> pcs]
  IN
  /\ UNCHANGED <<purchases, debts, debt_repayments, lastID, reqs>>
  /\ IF id \notin DOMAIN income
     THEN /\ res' = req @@ [status |-> "NotFound"]
          /\ UNCHANGED income
     ELSE LET record == income[id]
              finalPcs == NumOrElse(pcs, record.pcs)
              finalUnitPrice == NumOrElse(unit_price, record.unit_price)
          IN /\ income' = [income EXCEPT ![id] =
                             [date |-> record.date,
                              name |-> NameOrElse(name, record.name),
                              pcs |-> finalPcs,
                              unit_price |-> finalUnitPrice,
                              total_price |-> finalPcs * finalUnitPrice]]
             /\ res' = req @@ [status |-> "ok", record |-> record]

\* DELETE /income/:id: the row is deleted, the lots are not touched
DeleteIncome(id) ==
  LET req == [op |-> "deleteIncome", id |-> id]
  IN
  /\ UNCHANGED <<purchases, debts, debt_repayments, lastID, reqs>>
  /\ IF id \notin DOMAIN income
     THEN /\ res' = req @@ [status |-> "NotFound"]
          /\ UNCHANGED income
     ELSE /\ income' = Delete(income, id)
          /\ res' = req @@ [status |-> "ok"]

\* ------------------------------------------------------------------ debts
\* POST /debts
CreateDebt(date, name, pcs, unit_price, total_price, amount_payable_now) ==
  LET req == [op |-> "createDebt", name |-> name, pcs |-> pcs]
      lot == LotByName(purchases, name)
      totalPrice == NumOrZero(total_price)
      amountPayable == NumOrZero(amount_payable_now)
      balanceOwed == totalPrice - amountPayable
  IN
  /\ UNCHANGED <<income, debt_repayments, reqs>>
  /\ IF Falsy(pcs) \/ Falsy(unit_price) \/ total_price = <<>>
     THEN /\ res' = req @@ [status |-> "ValidationError"]
          /\ UNCHANGED <<purchases, debts, lastID>>
     ELSE IF lot = NoRow
     THEN /\ res' = req @@ [status |-> "ItemNotFound"]
          /\ UNCHANGED <<purchases, debts, lastID>>
     ELSE LET debtPcs == NumOrZero(<<pcs>>)
              currentStock == NumOrZero(<<purchases[lot].available_stock>>)
          IN IF InsufficientStock(debtPcs, currentStock)
             THEN /\ res' = req @@ [status |-> "InsufficientStock"]
                  /\ UNCHANGED <<purchases, debts, lastID>>
             ELSE /\ lastID.debts < MaxDebts
                  /\ LET id == lastID.debts + 1
                     IN /\ debts' = Insert(debts, id,
                                           [date |-> date, name |-> name, pcs |-> debtPcs,
                                            unit_price |-> unit_price,
                                            total_price |-> totalPrice,
                                            amount_payable_now |-> amountPayable,
                                            balance_owed |-> balanceOwed])
                        /\ lastID' = [lastID EXCEPT !.debts = id]
                        /\ purchases' = DeductStock(purchases, lot, currentStock, debtPcs)
                        /\ res' = req @@ [status |-> "ok", id |-> id, lot |-> lot]

\* DELETE /debts/:id: restore the stock of the lot of that name, then delete the row
DeleteDebt(id) ==
  LET req == [op |-> "deleteDebt", id |-> id]
  IN
  /\ UNCHANGED <<income, debt_repayments, lastID, reqs>>
  /\ IF id \notin DOMAIN debts
     THEN /\ res' = req @@ [status |-> "NotFound"]
          /\ UNCHANGED <<purchases, debts>>
     ELSE /\ purchases' = RestoreStock(purchases, debts[id].name, debts[id].pcs)
          /\ debts' = Delete(debts, id)
          /\ res' = req @@ [status |-> "ok"]

\* PUT /debts/:id with no date and no unit_price in the body: balance_owed is recomputed
\* from the new or the stored amounts
UpdateDebt(id, name, pcs, total_price, amount_payable_now) ==
  LET req == [op |-> "updateDebt", id |-> id]
  IN
  /\ UNCHANGED <<purchases, income, debt_repayments, lastID, reqs>>
  /\ IF id \notin DOMAIN debts
     THEN /\ res' = req @@ [status |-> "NotFound"]
          /\ UNCHANGED debts
     ELSE LET record == debts[id]
              totalPrice == NumOrElse(total_price, record.total_price)
              amountPayable == NumOrElse(amount_payable_now, record.amount_payable_now)
              balanceOwed == totalPrice - amountPayable
          IN /\ debts' = [debts EXCEPT ![id] =
                            [date |-> record.date,
                             name |-> NameOrElse(name, record.name),
                             pcs |-> NumOrElse(pcs, record.pcs),
                             unit_price |-> record.unit_price,
                             total_price |-> totalPrice,
                             amount_payable_now |-> amountPayable,
                             balance_owed |-> balanceOwed]]
             /\ res' = req @@ [status |-> "ok"]

\* ------------------------------------------------------------------ repayments
\* a validation that lets an amount of 0 through
NotPositive_ZeroAllowed(amount) == amount < 0

\* isNaN(payAmount) || payAmount <= 0
NotPositive(amount) == amount <= 0

\* a balance check that lets one unit too many through
ExceedsBalance_OffByOne(payAmount, balanceOwed) == payAmount > balanceOwed + 1

\* payAmount > balanceOwed
ExceedsBalance(payAmount, balanceOwed) == payAmount > balanceOwed

\* a negative-balance check that lets a balance of -1 through
NegativeBalance_OffByOne(newBalance) == newBalance < -1

\* newBalance < 0
NegativeBalance(newBalance) == newBalance < 0

\* an UPDATE debts without its WHERE id = ?: every debt row is written
SetDebt_NoWhere(d, id, newAmountPaid, newBalance) ==
  [i \in DOMAIN d |->
     [d[i] EXCEPT !.amount_payable_now = newAmountPaid, !.balance_owed = newBalance]]

\* an UPDATE debts that leaves amount_payable_now out
SetDebt_BalanceOnly(d, id, newAmountPaid, newBalance) ==
  [d EXCEPT ![id].balance_owed = newBalance]

\* UPDATE debts SET amount_payable_now = ?, balance_owed = ? WHERE id = ?
SetDebt(d, id, newAmountPaid, newBalance) ==
  [d EXCEPT ![id].amount_payable_now = newAmountPaid, ![id].balance_owed = newBalance]

\* POST /debt-repayments
CreateRepayment(debt_id, amount) ==
  LET req == [op |-> "createRepayment", debt_id |-> debt_id, amount |-> amount]
  IN
  /\ UNCHANGED <<purchases, income, reqs>>
  /\ IF Falsy(debt_id) \/ amount = <<>>
     THEN /\ res' = req @@ [status |-> "ValidationError"]
          /\ UNCHANGED <<debts, debt_repayments, lastID>>
     ELSE IF NotPositive(amount[1])
     THEN /\ res' = req @@ [status |-> "ValidationError"]
          /\ UNCHANGED <<debts, debt_repayments, lastID>>
     ELSE IF debt_id \notin DOMAIN debts
     THEN /\ res' = req @@ [status |-> "DebtNotFound"]
          /\ UNCHANGED <<debts, debt_repayments, lastID>>
     ELSE LET payAmount == amount[1]
              debt == debts[debt_id]
              balanceOwed == NumOrZero(<<debt.balance_owed>>)
          IN IF ExceedsBalance(payAmount, balanceOwed)
             THEN /\ res' = req @@ [status |-> "ExceedsBalance"]
                  /\ UNCHANGED <<debts, debt_repayments, lastID>>
             ELSE /\ lastID.debt_repayments < MaxRepayments
                  /\ LET repaymentId == lastID.debt_repayments + 1
                         newBalance == balanceOwed - payAmount
                         newAmountPaid == NumOrZero(<<debt.amount_payable_now>>) + payAmount
                     IN /\ debt_repayments' = Insert(debt_repayments, repaymentId,
                                                     [debt_id |-> debt_id, amount |-> payAmount])
                        /\ lastID' = [lastID EXCEPT !.debt_repayments = repaymentId]
                        /\ debts' = SetDebt(debts, debt_id, newAmountPaid, newBalance)
                        /\ res' = req @@ [status |-> "ok", id |-> repaymentId,
                                          debt |-> [balance_owed |-> debt.balance_owed,
                                                    amount_payable_now |-> debt.amount_payable_now]]

\* PUT /debt-repayments/:id
UpdateRepayment(id, amount) ==
  LET req == [op |-> "updateRepayment", id |-> id, amount |-> amount]
  IN
  /\ UNCHANGED <<purchases, income, lastID, reqs>>
  /\ IF id \notin DOMAIN debt_repayments
     THEN /\ res' = req @@ [status |-> "NotFound"]
          /\ UNCHANGED <<debts, debt_repayments>>
     ELSE LET rep == debt_repayments[id]
              newAmount == NumOrElse(amount, rep.amount)
          IN IF NotPositive(newAmount)
             THEN /\ res' = req @@ [status |-> "ValidationError"]
                  /\ UNCHANGED <<debts, debt_repayments>>
             ELSE IF rep.debt_id \notin DOMAIN debts
             THEN /\ res' = req @@ [status |-> "StorageError"]
                  /\ UNCHANGED <<debts, debt_repayments>>
             ELSE LET debt == debts[rep.debt_id]
                      oldAmount == NumOrZero(<<rep.amount>>)
                      diff == newAmount - oldAmount
                      newBalance == NumOrZero(<<debt.balance_owed>>) - diff
                      newAmountPaid == NumOrZero(<<debt.amount_payable_now>>) + diff
                  IN IF NegativeBalance(newBalance)
                     THEN /\ res' = req @@ [status |-> "NegativeBalance"]
                          /\ UNCHANGED <<debts, debt_repayments>>
                     ELSE /\ debt_repayments' = [debt_repayments EXCEPT ![id].amount = newAmount]
                          /\ debts' = SetDebt(debts, rep.debt_id, newAmountPaid, newBalance)
                          /\ res' = req @@ [status |-> "ok", rep |-> rep,
                                            debt |-> [balance_owed |-> debt.balance_owed,
                                                      amount_payable_now |-> debt.amount_payable_now]]

\* DELETE /debt-repayments/:id
DeleteRepayment(id) ==
  LET req == [op |-> "deleteRepayment", id |-> id]
  IN
  /\ UNCHANGED <<purchases, income, lastID, reqs>>
  /\ IF id \notin DOMAIN debt_repayments
     THEN /\ res' = req @@ [status |-> "NotFound"]
          /\ UNCHANGED <<debts, debt_repayments>>
     ELSE LET rep == debt_repayments[id]
              amount == NumOrZero(<<rep.amount>>)
          IN IF rep.debt_id \notin DOMAIN debts
             THEN /\ res' = req @@ [status |-> "StorageError"]
                  /\ UNCHANGED <<debts, debt_repayments>>
             ELSE LET debt == debts[rep.debt_id]
                      newBalance == NumOrZero(<<debt.balance_owed>>) + amount
                      newAmountPaid == Max0(NumOrZero(<<debt.amount_payable_now>>) - amount)
                  IN /\ debt_repayments' = Delete(debt_repayments, id)
                     /\ debts' = SetDebt(debts, rep.debt_id, newAmountPaid, newBalance)
                     /\ res' = req @@ [status |-> "ok", rep |-> rep,
                                       debt |-> [balance_owed |-> debt.balance_owed,
                                                 amount_payable_now |-> debt.amount_payable_now]]

\* ------------------------------------------------------------------ store calls that fail
\* the store calls of the two handlers below that may answer with an error
StoreCalls == {"none", "insert", "receipt", "updateStock", "updateDebt", "delete", "get"}

\* POST /debt-repayments when the store call failing answers with an error: a failed
\* INSERT ends the request; a failed receipt_number UPDATE is ignored; a failed UPDATE
\* debts and a failed final SELECT end the request with an error after the INSERT
CreateRepaymentWithStore(debt_id, amount, failing) ==
  LET req == [op |-> "createRepayment", debt_id |-> debt_id, amount |-> amount,
              failing |-> failing]
  IN
  /\ UNCHANGED <<purchases, income, reqs>>
  /\ IF Falsy(debt_id) \/ amount = <<>>
     THEN /\ res' = req @@ [status |-> "ValidationError"]
          /\ UNCHANGED <<debts, debt_repayments, lastID>>
     ELSE IF NotPositive(amount[1])
     THEN /\ res' = req @@ [status |-> "ValidationError"]
          /\ UNCHANGED <<debts, debt_repayments, lastID>>
     ELSE IF debt_id \notin DOMAIN debts
     THEN /\ res' = req @@ [status |-> "DebtNotFound"]
          /\ UNCHANGED <<debts, debt_repayments, lastID>>
     ELSE LET payAmount == amount[1]
              debt == debts[debt_id]
              balanceOwed == NumOrZero(<<debt.balance_owed>>)
          IN IF ExceedsBalance(payAmount, balanceOwed)
             THEN /\ res' = req @@ [status |-> "ExceedsBalance"]
                  /\ UNCHANGED <<debts, debt_repayments, lastID>>
             ELSE IF failing = "insert"
             THEN /\ res' = req @@ [status |-> "StorageError"]
                  /\ UNCHANGED <<debts, debt_repayments, lastID>>
             ELSE /\ lastID.debt_repayments < MaxRepayments
                  /\ LET repaymentId == lastID.debt_repayments + 1
                         newBalance == balanceOwed - payAmount
                         newAmountPaid == NumOrZero(<<debt.amount_payable_now>>) + payAmount
                     IN /\ debt_repayments' = Insert(debt_repayments, repaymentId,
                                                     [debt_id |-> debt_id, amount |-> payAmount])
                        /\ lastID' = [lastID EXCEPT !.debt_repayments = repaymentId]
                        /\ IF failing = "updateDebt"
                           THEN /\ UNCHANGED debts
                                /\ res' = req @@ [status |-> "StorageError", id |-> repaymentId]
                           ELSE /\ debts' = SetDebt(debts, debt_id, newAmountPaid, newBalance)
                                /\ res' = req @@ [status |-> IF failing = "get"
                                                            THEN "StorageError" ELSE "ok",
                                                  id |-> repaymentId]

\* DELETE /debts/:id when the store call failing answers with an error: the UPDATE of
\* the lot and the DELETE are issued one after the other; a failed UPDATE is logged, a
\* failed DELETE ends the request with an error
DeleteDebtWithStore(id, failing) ==
  LET req == [op |-> "deleteDebt", id |-> id, failing |-> failing]
  IN
  /\ UNCHANGED <<income, debt_repayments, lastID, reqs>>
  /\ IF id \notin DOMAIN debts
     THEN /\ res' = req @@ [status |-> "NotFound"]
          /\ UNCHANGED <<purchases, debts>>
     ELSE /\ purchases' = IF failing = "updateStock" THEN purchases
                          ELSE RestoreStock(purchases, debts[id].name, debts[id].pcs)
          /\ IF failing = "delete"
             THEN /\ UNCHANGED debts
                  /\ res' = req @@ [status |-> "StorageError"]
             ELSE /\ debts' = Delete(debts, id)
                  /\ res' = req @@ [status |-> "ok"]

\* ------------------------------------------------------------------ one lot, sales created and deleted
InitLot ==
  /\ \E n \in Names, p \in LotPcsInputs :
       purchases = (1 :> [date |-> 1, name |-> n, pcs |-> p, unit_price |-> 1,
                          available_stock |-> p, stock_deficiency_threshold |-> 0])
  /\ income = EmptyTable
  /\ debts = EmptyTable
  /\ debt_repayments = EmptyTable
  /\ lastID = [purchases |-> 1, income |-> 0, debts |-> 0, debt_repayments |-> 0]
  /\ res = [op |-> "none", status |-> "none"]
  /\ reqs = <<>>

NextLot ==
  \/ \E n \in Names, p \in PcsInputs : CreateIncome(1, n, p, 1)
  \/ \E n \in Names, p \in PcsInputs : CreateDebt(1, n, p, 1, <<1>>, <<>>)
  \/ \E id \in 1..MaxIncome : DeleteIncome(id)
  \/ \E id \in 1..MaxDebts : DeleteDebt(id)

SpecLot == InitLot /\ [][NextLot]_vars

\* ------------------------------------------------------------------ lots and sales
NextStock ==
  \/ \E n \in Names, p \in LotPcsInputs \cup {0} : CreatePurchase(1, n, p, 1)
  \/ \E id \in 1..MaxLots : DeletePurchase(id)
  \/ \E n \in Names, p \in PcsInputs : CreateIncome(1, n, p, 1)
  \/ \E n \in Names, p \in PcsInputs : CreateDebt(1, n, p, 1, <<1>>, <<>>)
  \/ \E id \in 1..MaxIncome : DeleteIncome(id)
  \/ \E id \in 1..MaxDebts : DeleteDebt(id)

SpecStock == Init /\ [][NextStock]_vars

\* ------------------------------------------------------------------ one lot, sales created and edited
NextSaleUpdate ==
  \/ \E n \in Names, p \in 1..MaxPcs : CreateIncome(1, n, p, 1)
  \/ \E n \in Names, p \in 1..MaxPcs : CreateDebt(1, n, p, 1, <<1>>, <<>>)
  \/ \E id \in 1..MaxIncome, n \in Opt(Names), p \in Opt(PcsInputs), u \in Opt(1..MaxPrice) :
       UpdateIncome(id, n, p, u)
  \/ \E id \in 1..MaxDebts, n \in Opt(Names), p \in Opt(PcsInputs) :
       UpdateDebt(id, n, p, <<>>, <<>>)

SpecSaleUpdate == InitLot /\ [][NextSaleUpdate]_vars

\* ------------------------------------------------------------------ debts and their repayments
\* one lot with stock for every debt; the debts are sales of one piece of it
DebtItem == "a"

TotalInputs == 0..MaxAmount

InitBalance ==
  /\ purchases = (1 :> [date |-> 1, name |-> DebtItem, pcs |-> MaxDebts, unit_price |-> 1,
                        available_stock |-> MaxDebts, stock_deficiency_threshold |-> 0])
  /\ income = EmptyTable
  /\ debts = EmptyTable
  /\ debt_repayments = EmptyTable
  /\ lastID = [purchases |-> 1, income |-> 0, debts |-> 0, debt_repayments |-> 0]
  /\ res = [op |-> "none", status |-> "none"]
  /\ reqs = <<>>

NextRepay ==
  \/ \E t \in Opt(TotalInputs), a \in Opt(AmountInputs) : CreateDebt(1, DebtItem, 1, 1, t, a)
  \/ \E d \in 0..MaxDebts, m \in Opt(AmountInputs) : CreateRepayment(d, m)
  \/ \E id \in 1..MaxRepayments, m \in Opt(AmountInputs) : UpdateRepayment(id, m)
  \/ \E id \in 1..MaxRepayments : DeleteRepayment(id)

SpecRepay == InitBalance /\ [][NextRepay]_vars

NextBalance ==
  \/ \E t \in Opt(TotalInputs), a \in Opt(AmountInputs) : CreateDebt(1, DebtItem, 1, 1, t, a)
  \/ \E id \in 1..MaxDebts, t \in Opt(TotalInputs), a \in Opt(AmountInputs) :
       UpdateDebt(id, <<>>, <<>>, t, a)
  \/ \E d \in 0..MaxDebts, m \in Opt(AmountInputs) : CreateRepayment(d, m)
  \/ \E id \in 1..MaxRepayments, m \in Opt(AmountInputs) : UpdateRepayment(id, m)
  \/ \E id \in 1..MaxRepayments : DeleteRepayment(id)

SpecBalance == InitBalance /\ [][NextBalance]_vars

\* debts of one piece, repaid and deleted while store calls may fail; a deletion is
\* tried only while no lot holds more than its initial stock (every failed DELETE adds
\* the debt's pcs to the lot again)
NextStoreFail ==
  \/ \E t \in 1..MaxAmount : CreateDebt(1, DebtItem, 1, 1, <<t>>, <<>>)
  \/ \E d \in 0..MaxDebts, m \in Opt(AmountInputs), f \in StoreCalls :
       CreateRepaymentWithStore(d, m, f)
  \/ /\ \A i \in DOMAIN purchases : purchases[i].available_stock <= MaxDebts
     /\ \E id \in 1..MaxDebts, f \in StoreCalls : DeleteDebtWithStore(id, f)

SpecStoreFail == InitBalance /\ [][NextStoreFail]_vars

\* ------------------------------------------------------------------ sale creations in flight
\* Each request runs its handler's store calls one at a time; between two calls of one
\* request any call of another request may run (one client, one query at a time).
SaleKinds == {"createIncome", "createDebt"}

NewReq ==
  [pc |-> "new", kind |-> "none", name |-> "", pcs |-> 0,
   lot |-> NoRow, currentStock |-> 0, id |-> 0, status |-> "none"]

InitConc ==
  /\ \E n \in Names, p \in LotPcsInputs :
       purchases = (1 :> [date |-> 1, name |-> n, pcs |-> p, unit_price |-> 1,
                          available_stock |-> p, stock_deficiency_threshold |-> 0])
  /\ income = EmptyTable
  /\ debts = EmptyTable
  /\ debt_repayments = EmptyTable
  /\ lastID = [purchases |-> 1, income |-> 0, debts |-> 0, debt_repayments |-> 0]
  /\ res = [op |-> "none", status |-> "none"]
  /\ reqs = [r \in 1..NumReq |-> NewReq]

Respond(r, status) ==
  /\ reqs' = [reqs EXCEPT ![r].pc = "done", ![r].status = status]
  /\ res' = [op |-> reqs[r].kind, name |-> reqs[r].name, pcs |-> reqs[r].pcs,
             status |-> status, req |-> r]

\* the request arrives: validation, then the SELECT of the lot is issued
SaleArrives(r, kind, name, pcs) ==
  /\ reqs[r].pc = "new"
  /\ UNCHANGED tables
  /\ IF Falsy(pcs)
     THEN /\ reqs' = [reqs EXCEPT ![r] = [@ EXCEPT !.pc = "done", !.kind = kind, !.name = name,
                                                   !.pcs = pcs, !.status = "ValidationError"]]
          /\ res' = [op |-> kind, name |-> name, pcs |-> pcs,
                     status |-> "ValidationError", req |-> r]
     ELSE /\ reqs' = [reqs EXCEPT ![r] = [@ EXCEPT !.pc = "select", !.kind = kind,
                                                   !.name = name, !.pcs = pcs]]
          /\ UNCHANGED res

\* the SELECT answers: item lookup and stock check, then the INSERT is issued
SaleSelectsLot(r) ==
  LET lot == LotByName(purchases, reqs[r].name)
  IN
  /\ reqs[r].pc = "select"
  /\ UNCHANGED tables
  /\ IF lot = NoRow
     THEN Respond(r, "ItemNotFound")
     ELSE LET salePcs == NumOrZero(<<reqs[r].pcs>>)
              currentStock == NumOrZero(<<purchases[lot].available_stock>>)
          IN IF InsufficientStock(salePcs, currentStock)
             THEN Respond(r, "InsufficientStock")
             ELSE /\ reqs' = [reqs EXCEPT ![r].pc = "insert", ![r].lot = lot,
                                          ![r].currentStock = currentStock]
                  /\ UNCHANGED res

\* the INSERT of the sale row runs, then the UPDATE of the stock is issued
SaleInsertsRow(r) ==
  /\ reqs[r].pc = "insert"
  /\ UNCHANGED <<purchases, debt_repayments, res>>
  /\ IF reqs[r].kind = "createIncome"
     THEN LET id == lastID.income + 1
          IN /\ income' = Insert(income, id,
                                 [date |-> 1, name |-> reqs[r].name, pcs |-> reqs[r].pcs,
                                  unit_price |-> 1, total_price |-> reqs[r].pcs * 1])
             /\ lastID' = [lastID EXCEPT !.income = id]
             /\ reqs' = [reqs EXCEPT ![r].pc = "update", ![r].id = id]
             /\ UNCHANGED debts
     ELSE LET id == lastID.debts + 1
          IN /\ debts' = Insert(debts, id,
                                [date |-> 1, name |-> reqs[r].name,
                                 pcs |-> NumOrZero(<<reqs[r].pcs>>), unit_price |-> 1,
                                 total_price |-> 1, amount_payable_now |-> 0,
                                 balance_owed |-> 1])
             /\ lastID' = [lastID EXCEPT !.debts = id]
             /\ reqs' = [reqs EXCEPT ![r].pc = "update", ![r].id = id]
             /\ UNCHANGED income

\* the UPDATE runs with the stock computed from the value read by the SELECT
SaleUpdatesStock(r) ==
  /\ reqs[r].pc = "update"
  /\ UNCHANGED <<income, debts, debt_repayments, lastID, res>>
  /\ purchases' = DeductStock(purchases, reqs[r].lot, reqs[r].currentStock,
                              NumOrZero(<<reqs[r].pcs>>))
  /\ reqs' = [reqs EXCEPT ![r].pc = "get"]

\* the created row is read back and the request answered
SaleResponds(r) ==
  /\ reqs[r].pc = "get"
  /\ UNCHANGED tables
  /\ Respond(r, "ok")

NextConc ==
  \/ \E r \in 1..NumReq, k \in SaleKinds, n \in Names, p \in 0..MaxPcs : SaleArrives(r, k, n, p)
  \/ \E r \in 1..NumReq : SaleSelectsLot(r)
  \/ \E r \in 1..NumReq : SaleInsertsRow(r)
  \/ \E r \in 1..NumReq : SaleUpdatesStock(r)
  \/ \E r \in 1..NumReq : SaleResponds(r)

SpecConc == InitConc /\ [][NextConc]_vars

\* ------------------------------------------------------------------ repayments in flight
\* Each createRepayment request runs its store calls one at a time; between two calls
\* of one request any call of another request may run.
NewRepayReq ==
  [pc |-> "new", debt_id |-> 0, payAmount |-> 0, balanceOwed |-> 0, amountPaid |-> 0,
   id |-> 0, status |-> "none"]

\* one lot and one debt on it that has not been repaid yet: balance_owed = total_price
InitRepayConc ==
  /\ purchases = (1 :> [date |-> 1, name |-> DebtItem, pcs |-> 1, unit_price |-> 1,
                        available_stock |-> 0, stock_deficiency_threshold |-> 0])
  /\ income = EmptyTable
  /\ \E t \in TotalInputs :
       debts = (1 :> [date |-> 1, name |-> DebtItem, pcs |-> 1, unit_price |-> 1,
                      total_price |-> t, amount_payable_now |-> 0, balance_owed |-> t])
  /\ debt_repayments = EmptyTable
  /\ lastID = [purchases |-> 1, income |-> 0, debts |-> 1, debt_repayments |-> 0]
  /\ res = [op |-> "none", status |-> "none"]
  /\ reqs = [r \in 1..NumReq |-> NewRepayReq]

RepayRespond(r, status) ==
  /\ reqs' = [reqs EXCEPT ![r].pc = "done", ![r].status = status]
  /\ res' = [op |-> "createRepayment", debt_id |-> reqs[r].debt_id,
             amount |-> reqs[r].payAmount, status |-> status, req |-> r]

\* the request arrives: validation, then the SELECT of the debt is issued
RepayArrives(r, debt_id, amount) ==
  /\ reqs[r].pc = "new"
  /\ UNCHANGED tables
  /\ IF Falsy(debt_id) \/ amount = <<>> \/ NotPositive(NumOrZero(amount))
     THEN /\ reqs' = [reqs EXCEPT ![r] = [@ EXCEPT !.pc = "done", !.debt_id = debt_id,
                                                   !.payAmount = NumOrZero(amount),
                                                   !.status = "ValidationError"]]
          /\ res' = [op |-> "createRepayment", debt_id |-> debt_id,
                     amount |-> NumOrZero(amount), status |-> "ValidationError", req |-> r]
     ELSE /\ reqs' = [reqs EXCEPT ![r] = [@ EXCEPT !.pc = "select", !.debt_id = debt_id,
                                                   !.payAmount = amount[1]]]
          /\ UNCHANGED res

\* the SELECT answers: debt lookup and balance check, then the INSERT is issued
RepaySelectsDebt(r) ==
  /\ reqs[r].pc = "select"
  /\ UNCHANGED tables
  /\ IF reqs[r].debt_id \notin DOMAIN debts
     THEN RepayRespond(r, "DebtNotFound")
     ELSE LET debt == debts[reqs[r].debt_id]
              balanceOwed == NumOrZero(<<debt.balance_owed>>)
          IN IF ExceedsBalance(reqs[r].payAmount, balanceOwed)
             THEN RepayRespond(r, "ExceedsBalance")
             ELSE /\ reqs' = [reqs EXCEPT ![r].pc = "insert", ![r].balanceOwed = balanceOwed,
                                          ![r].amountPaid = NumOrZero(<<debt.amount_payable_now>>)]
                  /\ UNCHANGED res

\* the INSERT of the repayment row runs, then the UPDATE of its receipt_number is issued
RepayInsertsRow(r) ==
  LET repaymentId == lastID.debt_repayments + 1
  IN
  /\ reqs[r].pc = "insert"
  /\ UNCHANGED <<purchases, income, debts, res>>
  /\ debt_repayments' = Insert(debt_repayments, repaymentId,
                               [debt_id |-> reqs[r].debt_id, amount |-> reqs[r].payAmount])
  /\ lastID' = [lastID EXCEPT !.debt_repayments = repaymentId]
  /\ reqs' = [reqs EXCEPT ![r].pc = "receipt", ![r].id = repaymentId]

\* the UPDATE of receipt_number runs (no modelled column), then the UPDATE debts is issued
RepaySetsReceipt(r) ==
  /\ reqs[r].pc = "receipt"
  /\ UNCHANGED <<tables, res>>
  /\ reqs' = [reqs EXCEPT ![r].pc = "updateDebt"]

\* the UPDATE debts runs with the values computed from the debt read by the SELECT
RepayUpdatesDebt(r) ==
  LET newBalance == reqs[r].balanceOwed - reqs[r].payAmount
      newAmountPaid == reqs[r].amountPaid + reqs[r].payAmount
  IN
  /\ reqs[r].pc = "updateDebt"
  /\ UNCHANGED <<purchases, income, debt_repayments, lastID, res>>
  /\ debts' = SetDebt(debts, reqs[r].debt_id, newAmountPaid, newBalance)
  /\ reqs' = [reqs EXCEPT ![r].pc = "get"]

\* the created repayment is read back and the request answered
RepayResponds(r) ==
  /\ reqs[r].pc = "get"
  /\ UNCHANGED tables
  /\ RepayRespond(r, "ok")

NextRepayConc ==
  \/ \E r \in 1..NumReq, d \in 0..MaxDebts, m \in Opt(AmountInputs) : RepayArrives(r, d, m)
  \/ \E r \in 1..NumReq : RepaySelectsDebt(r)
  \/ \E r \in 1..NumReq : RepayInsertsRow(r)
  \/ \E r \in 1..NumReq : RepaySetsReceipt(r)
  \/ \E r \in 1..NumReq : RepayUpdatesDebt(r)
  \/ \E r \in 1..NumReq : RepayResponds(r)

SpecRepayConc == InitRepayConc /\ [][NextRepayConc]_vars

RECURSIVE SumPayAmounts(_, _)
\* the sum of the amounts of the requests 1..n of rq
SumPayAmounts(rq, n) ==
  IF n = 0 THEN 0 ELSE rq[n].payAmount + SumPayAmounts(rq, n - 1)

\* ------------------------------------------------------------------ sums over a table
RECURSIVE SumPcs(_, _)
\* the sum of pcs over the rows of table t whose name is name
SumPcs(t, name) ==
  IF DOMAIN t = {} THEN 0
  ELSE LET i == CHOOSE i \in DOMAIN t : TRUE
       IN (IF t[i].name = name THEN t[i].pcs ELSE 0) + SumPcs(Delete(t, i), name)

IsCreateSale(r) == r.op \in {"createIncome", "createDebt"}

\* ------------------------------------------------------------------ thresholds and stock edits
\* PUT /purchases/threshold/:id
UpdateThreshold(id, threshold) ==
  LET req == [op |-> "updateThreshold", id |-> id, threshold |-> threshold]
  IN
  /\ UNCHANGED <<income, debts, debt_repayments, lastID, reqs>>
  /\ IF threshold = <<>> \/ threshold[1] < 0
     THEN /\ res' = req @@ [status |-> "ValidationError"]
          /\ UNCHANGED purchases
     ELSE IF id \notin DOMAIN purchases
     THEN /\ res' = req @@ [status |-> "NotFound"]
          /\ UNCHANGED purchases
     ELSE /\ purchases' = [purchases EXCEPT ![id].stock_deficiency_threshold = threshold[1]]
          /\ res' = req @@ [status |-> "ok"]

\* PUT /purchases/stock/:id
UpdateStock(id, available_stock) ==
  LET req == [op |-> "updateStock", id |-> id, available_stock |-> available_stock]
  IN
  /\ UNCHANGED <<income, debts, debt_repayments, lastID, reqs>>
  /\ IF available_stock = <<>> \/ available_stock[1] < 0
     THEN /\ res' = req @@ [status |-> "ValidationError"]
          /\ UNCHANGED purchases
     ELSE IF id \notin DOMAIN purchases
     THEN /\ res' = req @@ [status |-> "NotFound"]
          /\ UNCHANGED purchases
     ELSE /\ purchases' = [purchases EXCEPT ![id].available_stock = available_stock[1]]
          /\ res' = req @@ [status |-> "ok"]

\* ------------------------------------------------------------------ deficiency alerts
\* an alert condition that leaves out the lots whose stock equals the threshold
AlertDue_BelowOnly(lot) ==
  /\ lot.stock_deficiency_threshold > 0
  /\ lot.available_stock < lot.stock_deficiency_threshold

\* WHERE p.stock_deficiency_threshold > 0 AND p.available_stock <= p.stock_deficiency_threshold
AlertDue(lot) ==
  /\ lot.stock_deficiency_threshold > 0
  /\ lot.available_stock <= lot.stock_deficiency_threshold

\* ORDER BY p.available_stock ASC: the selected ids, each once, in every order the
\* store may return them in (rows of equal available_stock come in any order)
AlertOrders(p) ==
  LET due == {i \in DOMAIN p : AlertDue(p[i])}
  IN {o \in [1..Cardinality(due) -> due] :
        /\ \A k, l \in DOMAIN o : k # l => o[k] # o[l]
        /\ \A k, l \in DOMAIN o : k < l => p[o[k]].available_stock <= p[o[l]].available_stock}

\* pcs_sold = SUM(income.pcs WHERE name = ?) + SUM(debts.pcs WHERE name = ?)
PcsSold(name) == SumPcs(income, name) + SumPcs(debts, name)

\* GET /purchases/alerts
GetAlerts ==
  /\ UNCHANGED <<tables, reqs>>
  /\ \E o \in AlertOrders(purchases) :
       res' = [op |-> "getAlerts", status |-> "ok",
               alerts |-> [k \in DOMAIN o |->
                             [id |-> o[k],
                              name |-> purchases[o[k]].name,
                              available_stock |-> purchases[o[k]].available_stock,
                              stock_deficiency_threshold |->
                                purchases[o[k]].stock_deficiency_threshold,
                              pcs |-> purchases[o[k]].pcs,
                              unit_price |-> purchases[o[k]].unit_price,
                              pcs_sold |-> PcsSold(purchases[o[k]].name)]]]

StockInputs == (-1)..MaxLotPcs

NextAlerts ==
  \/ \E n \in Names, p \in LotPcsInputs : CreatePurchase(1, n, p, 1)
  \/ \E id \in 1..MaxLots, t \in Opt(ThresholdInputs) : UpdateThreshold(id, t)
  \/ \E id \in 1..MaxLots, a \in Opt(StockInputs) : UpdateStock(id, a)
  \/ \E n \in Names, p \in 1..MaxPcs : CreateIncome(1, n, p, 1)
  \/ GetAlerts

SpecAlerts == Init /\ [][NextAlerts]_vars

\* ------------------------------------------------------------------ gain and loss
\* a cost lookup that takes the lot first inserted (lowest id) of the name
CostLot_FirstInserted(p, name) == LotByName_LowestId(p, name)

\* a cost lookup that takes the lot the stock is deducted from
CostLot_SameAsStockLot(p, name) == LotByName(p, name)

\* SELECT * FROM purchases ORDER BY date DESC, created_at DESC, then
\* purchases.find(p => p.name === name): the lot of that name with the latest date,
\* the latest created (highest id) among those of one date
CostLot(p, name) ==
  LET ids == {i \in DOMAIN p : p[i].name = name}
  IN IF ids = {} THEN NoRow
     ELSE CHOOSE i \in ids :
            \A j \in ids : p[j].date < p[i].date \/ (p[j].date = p[i].date /\ j <= i)

\* inventoryItem ? parseFloat(inventoryItem.unit_price) || 0 : 0
CostUnitPrice(p, name) ==
  LET lot == CostLot(p, name)
  IN IF lot = NoRow THEN 0 ELSE NumOrZero(<<p[lot].unit_price>>)

\* parseFloat(s.total_price) || (selling_unit_price * pcs)
TotalSale(total_price, selling_unit_price, pcs) ==
  IF total_price # 0 THEN total_price ELSE selling_unit_price * pcs

\* a row that takes the sale's own unit price as its cost basis
GainRow_CostIsSalePrice(source, id, s) ==
  LET selling_unit_price == NumOrZero(<<s.unit_price>>)
      pcs == NumOrZero(<<s.pcs>>)
      total_cost == selling_unit_price * pcs
      total_sale == TotalSale(s.total_price, selling_unit_price, pcs)
  IN [id |-> id, source |-> source, date |-> s.date, name |-> s.name, pcs |-> pcs,
      cost_unit_price |-> CostUnitPrice(purchases, s.name),
      selling_unit_price |-> selling_unit_price,
      total_cost |-> total_cost, total_sale |-> total_sale,
      gain_loss |-> total_sale - total_cost]

\* the row pushed to combined for one income or debt row s
GainRow(source, id, s) ==
  LET cost_unit_price == CostUnitPrice(purchases, s.name)
      selling_unit_price == NumOrZero(<<s.unit_price>>)
      pcs == NumOrZero(<<s.pcs>>)
      total_cost == cost_unit_price * pcs
      total_sale == TotalSale(s.total_price, selling_unit_price, pcs)
  IN [id |-> id, source |-> source, date |-> s.date, name |-> s.name, pcs |-> pcs,
      cost_unit_price |-> cost_unit_price, selling_unit_price |-> selling_unit_price,
      total_cost |-> total_cost, total_sale |-> total_sale,
      gain_loss |-> total_sale - total_cost]

RECURSIVE ByDateThenId(_, _)
\* WHERE date >= ? AND date <= ? ORDER BY date ASC, created_at ASC: the ids in that order
ByDateThenId(t, ids) ==
  IF ids = {} THEN <<>>
  ELSE LET i == CHOOSE i \in ids :
                  \A j \in ids : t[i].date < t[j].date \/ (t[i].date = t[j].date /\ i <= j)
       IN <<i>> \o ByDateThenId(t, ids \ {i})

InRange(t, start, end) == {i \in DOMAIN t : t[i].date >= start /\ t[i].date <= end}

\* the (incomes || []).forEach and (debts || []).forEach pushes
GainRows(source, t, ids) == [k \in DOMAIN ids |-> GainRow(source, ids[k], t[ids[k]])]

RECURSIVE SortByDate(_)
\* combined.sort by date: rows of one date keep their order
SortByDate(rows) ==
  IF rows = <<>> THEN <<>>
  ELSE LET n == Len(rows)
           sorted == SortByDate(SubSeq(rows, 1, n - 1))
           k == Cardinality({i \in DOMAIN sorted : sorted[i].date <= rows[n].date})
       IN SubSeq(sorted, 1, k) \o <<rows[n]>> \o SubSeq(sorted, k + 1, Len(sorted))

RECURSIVE Totals_GainsOnly(_)
\* totals that leave the losses out of total_gain_loss
Totals_GainsOnly(rows) ==
  IF rows = <<>> THEN [total_cost |-> 0, total_sale |-> 0, total_gain_loss |-> 0]
  ELSE LET n == Len(rows)
           acc == Totals_GainsOnly(SubSeq(rows, 1, n - 1))
       IN [total_cost |-> acc.total_cost + rows[n].total_cost,
           total_sale |-> acc.total_sale + rows[n].total_sale,
           total_gain_loss |-> acc.total_gain_loss + Max0(rows[n].gain_loss)]

RECURSIVE Totals(_)
\* combined.reduce from {total_cost: 0, total_sale: 0, total_gain_loss: 0}
Totals(rows) ==
  IF rows = <<>> THEN [total_cost |-> 0, total_sale |-> 0, total_gain_loss |-> 0]
  ELSE LET n == Len(rows)
           acc == Totals(SubSeq(rows, 1, n - 1))
       IN [total_cost |-> acc.total_cost + rows[n].total_cost,
           total_sale |-> acc.total_sale + rows[n].total_sale,
           total_gain_loss |-> acc.total_gain_loss + rows[n].gain_loss]

\* GET /gain?date= or ?startDate=&endDate=
GetGainLoss(date, startDate, endDate) ==
  LET req == [op |-> "getGainLoss"]
      start == IF date # <<>> THEN date ELSE startDate
      end == IF date # <<>> THEN date ELSE endDate
  IN
  /\ UNCHANGED <<tables, reqs>>
  /\ IF start = <<>> \/ end = <<>>
     THEN res' = req @@ [status |-> "ValidationError"]
     ELSE LET incomes == ByDateThenId(income, InRange(income, start[1], end[1]))
              debtRows == ByDateThenId(debts, InRange(debts, start[1], end[1]))
              combined == SortByDate(GainRows("income", income, incomes)
                                       \o GainRows("debt", debts, debtRows))
          IN res' = req @@ [status |-> "ok", gain |-> combined, totals |-> Totals(combined),
                            startDate |-> start[1], endDate |-> end[1]]

\* lots and sales of one item, a piece at a time, at any date and price
GainItem == "a"

NextGain ==
  \/ \E d \in Dates, u \in 1..MaxPrice : CreatePurchase(d, GainItem, MaxLotPcs, u)
  \/ \E d \in Dates, u \in PriceInputs : CreateIncome(d, GainItem, 1, u)
  \/ \E d \in Dates, u \in 1..MaxPrice, t \in {<<0>>, <<MaxAmount>>} :
       CreateDebt(d, GainItem, 1, u, t, <<>>)
  \/ \E date \in Opt(Dates), s \in Opt(Dates), e \in Opt(Dates) : GetGainLoss(date, s, e)

SpecGain == Init /\ [][NextGain]_vars

\* lots of any name, date and price, created and deleted, with income of one piece
NextCost ==
  \/ \E d \in Dates, n \in Names, u \in 1..MaxPrice : CreatePurchase(d, n, MaxLotPcs, u)
  \/ \E id \in 1..MaxLots : DeletePurchase(id)
  \/ \E n \in Names : CreateIncome(1, n, 1, 1)
  \/ \E s \in Opt(Dates) : GetGainLoss(<<>>, s, <<MaxDate>>)

SpecCost == Init /\ [][NextCost]_vars

\* ------------------------------------------------------------------ claims: stock

\* C1: when two sale creations (Income or Debt, any mix) run concurrently against the
\* lot whose available_stock is 1 and each asks for pcs = 1, then under every
\* interleaving of their store calls exactly one succeeds and the other fails with
\* InsufficientStock.
C1_ExactlyOneSucceeds ==
  (/\ purchases[1].pcs = 1
   /\ \A r \in 1..NumReq :
        /\ reqs[r].pc = "done"
        /\ reqs[r].pcs = 1
        /\ reqs[r].name = purchases[1].name)
  => \E r \in 1..NumReq :
       /\ reqs[r].status = "ok"
       /\ \A q \in 1..NumReq \ {r} : reqs[q].status = "InsufficientStock"

\* C2: over every sequence of Income/Debt creations and deletions issued one after
\* another against a single lot, the lot's available_stock is >= 0 in every state.
C2_StockNeverNegative ==
  \A l \in DOMAIN purchases : purchases[l].available_stock >= 0

\* C3: after any sequence of sequential Income/Debt creations and deletions against a
\* single lot, available_stock equals the lot's pcs minus the sum of pcs over the
\* income and debt rows of that name that currently exist.
C3_StockEqualsPcsMinusSold ==
  \A l \in DOMAIN purchases :
    purchases[l].available_stock =
      purchases[l].pcs - (SumPcs(income, purchases[l].name) + SumPcs(debts, purchases[l].name))

C5_DeleteIncomeRestoresStock ==
  [][ (res'.op = "deleteIncome" /\ res'.id \in DOMAIN income)
      => LET row == income[res'.id]
             lot == LotByName(purchases, row.name)
         IN lot # NoRow =>
              /\ lot \in DOMAIN purchases'
              /\ purchases'[lot].available_stock = purchases[lot].available_stock + row.pcs ]_vars

\* C6: deleting an existing Debt record succeeds and deletes the row; it adds the row's
\* pcs to the available_stock of the highest-id lot of the row's name and changes no
\* other lot; when no lot has that name no lot changes at all.
C6_DeleteDebtRestoresStock ==
  [][ (res'.op = "deleteDebt" /\ res'.id \in DOMAIN debts)
      => LET row == debts[res'.id]
             ids == {i \in DOMAIN purchases : purchases[i].name = row.name}
         IN /\ res'.status = "ok"
            /\ debts' = Delete(debts, res'.id)
            /\ IF ids = {}
               THEN purchases' = purchases
               ELSE purchases' =
                      [purchases EXCEPT ![Max(ids)].available_stock = @ + row.pcs] ]_vars

\* a debt was deleted after the last lot was: the deletion succeeded with no lot to restore
C6_Witness ==
  /\ res.op = "deleteDebt"
  /\ res.status = "ok"
  /\ purchases = EmptyTable
  /\ lastID.purchases > 0

\* ------------------------------------------------------------------ claims: balance

\* C7: for every debt, balance_owed + amount_payable_now = total_price after every
\* create, update and delete of a repayment, starting from any debt the create-debt
\* handler accepts.
C7_BalancePlusPaidIsTotal ==
  \A d \in DOMAIN debts :
    debts[d].balance_owed + debts[d].amount_payable_now = debts[d].total_price

C9_DeleteReversesCreate ==
  [][ (/\ res.op = "createRepayment" /\ res.status = "ok"
       /\ res'.op = "deleteRepayment" /\ res'.status = "ok"
       /\ res'.id = res.id)
      => /\ debts'[res.debt_id].balance_owed = res.debt.balance_owed
         /\ debts'[res.debt_id].amount_payable_now = res.debt.amount_payable_now ]_vars

\* C10: every debt row has balance_owed >= 0 in every reachable state, over all
\* sequences of debt creation, debt update and repayment creation, update and deletion.
C10_BalanceNeverNegative ==
  \A d \in DOMAIN debts : debts[d].balance_owed >= 0

RECURSIVE SumAmounts(_, _)
\* the sum of amount over the repayment rows of table t whose debt_id is debt_id
SumAmounts(t, debt_id) ==
  IF DOMAIN t = {} THEN 0
  ELSE LET i == CHOOSE i \in DOMAIN t : TRUE
       IN (IF t[i].debt_id = debt_id THEN t[i].amount ELSE 0) + SumAmounts(Delete(t, i), debt_id)

\* C11: for every debt, in every reachable state, the sum of the amounts of the
\* repayment rows that reference it does not exceed the debt's total_price.
C11_RepaymentsWithinTotal ==
  \A d \in DOMAIN debts : SumAmounts(debt_repayments, d) <= debts[d].total_price

\* C12: a successful createRepayment(debt_id, amount) inserts exactly one repayment row,
\* [debt_id, amount] under a fresh id, leaves every other repayment row as it was, and
\* changes the debt table only at debt_id: balance_owed down by amount and
\* amount_payable_now up by amount.
C12_CreateRepaymentEffect ==
  [][ (res'.op = "createRepayment" /\ res'.status = "ok")
      => LET d == res'.debt_id
             m == res'.amount[1]
         IN /\ res'.id \notin DOMAIN debt_repayments
            /\ debt_repayments' = Insert(debt_repayments, res'.id, [debt_id |-> d, amount |-> m])
            /\ d \in DOMAIN debts
            /\ debts' = [debts EXCEPT ![d].balance_owed = @ - m,
                                      ![d].amount_payable_now = @ + m] ]_vars

\* a second repayment was created while another debt and another repayment existed
C12_Witness ==
  /\ res.op = "createRepayment"
  /\ res.status = "ok"
  /\ DOMAIN debts \ {res.debt_id} # {}
  /\ DOMAIN debt_repayments \ {res.id} # {}
  /\ debts[res.debt_id].balance_owed = res.debt.balance_owed - res.amount[1]

\* C13: a successful updateRepayment of a row whose amount is oldAmount, with new amount
\* newAmount (the request's amount, or oldAmount when the request has none), stores
\* newAmount in the row and changes the parent debt by diff = newAmount - oldAmount:
\* balance_owed down by diff, amount_payable_now up by diff; no other row changes.
C13_UpdateRepaymentEffect ==
  [][ (res'.op = "updateRepayment" /\ res'.status = "ok")
      => /\ res'.id \in DOMAIN debt_repayments
         /\ LET old == debt_repayments[res'.id]
                newAmount == IF res'.amount = <<>> THEN old.amount ELSE res'.amount[1]
                diff == newAmount - old.amount
            IN /\ debt_repayments' = [debt_repayments EXCEPT ![res'.id].amount = newAmount]
               /\ old.debt_id \in DOMAIN debts
               /\ debts' = [debts EXCEPT ![old.debt_id].balance_owed = @ - diff,
                                         ![old.debt_id].amount_payable_now = @ + diff] ]_vars

\* a repayment's amount was changed to a different one
C13_Witness ==
  /\ res.op = "updateRepayment"
  /\ res.status = "ok"
  /\ res.amount # <<>>
  /\ res.amount[1] # res.rep.amount
  /\ debt_repayments[res.id].amount = res.amount[1]
  /\ debts[res.rep.debt_id].balance_owed # res.debt.balance_owed

C15_ReopenedOnlyByRepaymentReversal ==
  [][ \A d \in DOMAIN debts :
        (debts[d].balance_owed = 0 /\ d \in DOMAIN debts' /\ debts'[d].balance_owed > 0)
        => /\ res'.op \in {"deleteRepayment", "updateRepayment"}
           /\ res'.status = "ok"
           /\ res'.rep.debt_id = d ]_vars

\* C15, amended: a debt whose balance_owed is 0 gets a balance_owed greater than 0 only
\* by the deletion or the update of one of its own repayments, or by an update of the
\* debt itself (which recomputes balance_owed = total_price - amount_payable_now).
C15_ReopenedOnlyByReversalOrDebtUpdate ==
  [][ \A d \in DOMAIN debts :
        (debts[d].balance_owed = 0 /\ d \in DOMAIN debts' /\ debts'[d].balance_owed > 0)
        => \/ /\ res'.op \in {"deleteRepayment", "updateRepayment"}
              /\ res'.status = "ok"
              /\ res'.rep.debt_id = d
           \/ /\ res'.op = "updateDebt"
              /\ res'.status = "ok"
              /\ res'.id = d ]_vars

\* a settled debt was reopened by the deletion of one of its repayments
C15_Witness ==
  /\ res.op = "deleteRepayment"
  /\ res.status = "ok"
  /\ res.debt.balance_owed = 0
  /\ res.rep.debt_id \in DOMAIN debts
  /\ debts[res.rep.debt_id].balance_owed > 0

\* ------------------------------------------------------------------ claims: sale creation

\* C18: a successful sale creation (Income or Debt) with name n and pcs p lowers the
\* available_stock of the highest-id lot named n by exactly p and changes nothing else
\* in the lot table: every other lot, other lots named n included, keeps its stock.
C18_SaleDeductsHighestIdLot ==
  [][ (IsCreateSale(res') /\ res'.status = "ok")
      => LET ids == {i \in DOMAIN purchases : purchases[i].name = res'.name}
         IN /\ ids # {}
            /\ purchases' = [purchases EXCEPT ![Max(ids)].available_stock = @ - res'.pcs] ]_vars

\* a sale succeeded while two lots had its name
C18_Witness ==
  /\ IsCreateSale(res)
  /\ res.status = "ok"
  /\ res.pcs > 0
  /\ Cardinality({i \in DOMAIN purchases : purchases[i].name = res.name}) = 2

\* C20: creating a sale (Income or Debt) with pcs <= 0 is rejected with the validation
\* error and changes no lot and no sale table.
C20_NonPositivePcsRejected ==
  [][ (IsCreateSale(res') /\ res'.pcs <= 0)
      => /\ res'.status = "ValidationError"
         /\ UNCHANGED tables ]_vars

\* ------------------------------------------------------------------ claims: repayment validation

\* C19 as stated: every createRepayment and every updateRepayment whose amount is
\* absent (create) or not greater than 0 answers the validation error and writes nothing.
C19_NonPositiveAmountIsValidationError ==
  [][ (\/ /\ res'.op = "createRepayment"
          /\ (res'.amount = <<>> \/ res'.amount[1] <= 0)
       \/ /\ res'.op = "updateRepayment"
          /\ res'.amount # <<>>
          /\ res'.amount[1] <= 0)
      => /\ res'.status = "ValidationError"
         /\ UNCHANGED tables ]_vars

\* C19, amended: a createRepayment whose amount is absent or not greater than 0, and an
\* updateRepayment of an existing repayment whose amount is present and not greater
\* than 0, answer the validation error; an updateRepayment of an unknown id answers
\* NotFound whatever its amount; none of these requests writes anything.
C19_NonPositiveAmountRejected ==
  [][ /\ (/\ res'.op = "createRepayment"
          /\ (res'.amount = <<>> \/ res'.amount[1] <= 0))
         => (res'.status = "ValidationError" /\ UNCHANGED tables)
      /\ (/\ res'.op = "updateRepayment"
          /\ res'.amount # <<>>
          /\ res'.amount[1] <= 0)
         => /\ res'.status = (IF res'.id \in DOMAIN debt_repayments
                              THEN "ValidationError" ELSE "NotFound")
            /\ UNCHANGED tables ]_vars

\* an update of an existing repayment to an amount of 0 or less was refused
C19_Witness ==
  /\ res.op = "updateRepayment"
  /\ res.status = "ValidationError"
  /\ res.id \in DOMAIN debt_repayments
  /\ res.amount[1] <= 0
  /\ debt_repayments[res.id].amount > 0

\* ------------------------------------------------------------------ claims: reports

\* C16: getDeficiencyAlerts returns an alert for a lot if and only if the lot's
\* stock_deficiency_threshold > 0 and its available_stock <= that threshold; a lot is
\* listed once, with its own available_stock, and the alerts are in ascending order of
\* available_stock.
C16_AlertsIffDueAscending ==
  [][ res'.op = "getAlerts"
      => LET alerts == res'.alerts
         IN /\ \A i \in DOMAIN purchases :
                 (\E k \in DOMAIN alerts : alerts[k].id = i)
                 <=> (/\ purchases[i].stock_deficiency_threshold > 0
                      /\ purchases[i].available_stock
                           <= purchases[i].stock_deficiency_threshold)
            /\ \A k \in DOMAIN alerts :
                 /\ alerts[k].id \in DOMAIN purchases
                 /\ alerts[k].available_stock = purchases[alerts[k].id].available_stock
            /\ \A k, l \in DOMAIN alerts :
                 /\ (k # l => alerts[k].id # alerts[l].id)
                 /\ (k < l => alerts[k].available_stock <= alerts[l].available_stock) ]_vars

\* one lot was listed, at its threshold, while another lot with a threshold was not
C16_Witness ==
  /\ res.op = "getAlerts"
  /\ Len(res.alerts) = 1
  /\ res.alerts[1].available_stock = res.alerts[1].stock_deficiency_threshold
  /\ \E i \in DOMAIN purchases :
       /\ i # res.alerts[1].id
       /\ purchases[i].stock_deficiency_threshold > 0
       /\ purchases[i].available_stock > purchases[i].stock_deficiency_threshold

RECURSIVE SeqSum(_, _)
\* the sum of the field f over the rows of a sequence
SeqSum(rows, f) == IF rows = <<>> THEN 0 ELSE rows[1][f] + SeqSum(Tail(rows), f)

\* C17: in every getGainLoss result each row has gain_loss = total_sale - total_cost and
\* total_cost = cost_unit_price * pcs, and the totals total_cost, total_sale and
\* total_gain_loss are the sums of the rows' total_cost, total_sale and gain_loss.
C17_GainLossRowsAndTotals ==
  (res.op = "getGainLoss" /\ res.status = "ok")
  => /\ \A k \in DOMAIN res.gain :
          /\ res.gain[k].gain_loss = res.gain[k].total_sale - res.gain[k].total_cost
          /\ res.gain[k].total_cost = res.gain[k].cost_unit_price * res.gain[k].pcs
     /\ res.totals.total_cost = SeqSum(res.gain, "total_cost")
     /\ res.totals.total_sale = SeqSum(res.gain, "total_sale")
     /\ res.totals.total_gain_loss = SeqSum(res.gain, "gain_loss")

\* a result of three rows, one sold at a loss and one at cost
C17_Witness ==
  /\ res.op = "getGainLoss"
  /\ res.status = "ok"
  /\ Len(res.gain) = 3
  /\ \E k \in DOMAIN res.gain : res.gain[k].gain_loss < 0
  /\ \E k \in DOMAIN res.gain : res.gain[k].gain_loss = 0
  /\ res.totals.total_gain_loss < 0

\* ------------------------------------------------------------------ claims: sale rows

\* C21: every sale row written by a sale creation, Income or Debt, has total_price equal
\* to pcs * unit_price of that same row at the time it is written.
C21_TotalPriceIsPcsTimesUnitPrice ==
  [][ (IsCreateSale(res') /\ res'.status = "ok")
      => LET row == IF res'.op = "createIncome" THEN income'[res'.id] ELSE debts'[res'.id]
         IN row.total_price = row.pcs * row.unit_price ]_vars

\* C22: an update of an Income or a Debt record, a change of its pcs or of its name
\* included, leaves every lot as it was.
C22_SaleUpdateLeavesLots ==
  [][ res'.op \in {"updateIncome", "updateDebt"} => purchases' = purchases ]_vars

\* an income row's pcs was changed by an update
C22_Witness ==
  /\ res.op = "updateIncome"
  /\ res.status = "ok"
  /\ res.id \in DOMAIN income
  /\ income[res.id].pcs # res.record.pcs
  /\ \E i \in DOMAIN purchases : purchases[i].name = res.record.name

\* ------------------------------------------------------------------ claims: gain and loss

\* C23: in every getGainLoss row, total_sale is the total_price stored in the sale row
\* (every stored sale row has one).
C23_TotalSaleIsStoredTotalPrice ==
  [][ (res'.op = "getGainLoss" /\ res'.status = "ok")
      => \A k \in DOMAIN res'.gain :
           LET row == res'.gain[k]
               sale == IF row.source = "income" THEN income[row.id] ELSE debts[row.id]
           IN row.total_sale = sale.total_price ]_vars

\* C24 as stated: a row's cost_unit_price is the unit_price of the first inserted lot
\* (lowest id) whose name is the sale's name, and 0 when no lot has that name.
C24_CostFromFirstInsertedLot ==
  [][ (res'.op = "getGainLoss" /\ res'.status = "ok")
      => \A k \in DOMAIN res'.gain :
           LET row == res'.gain[k]
               ids == {i \in DOMAIN purchases : purchases[i].name = row.name}
           IN IF ids = {} THEN row.cost_unit_price = 0
              ELSE \E i \in ids : /\ \A j \in ids : i <= j
                                  /\ row.cost_unit_price = purchases[i].unit_price ]_vars

\* C24, amended: a row's cost_unit_price is the unit_price of the lot of the sale's name
\* with the latest date, the last created (highest id) among the lots of that date,
\* and 0 when no lot has that name.
C24_CostFromLatestLot ==
  [][ (res'.op = "getGainLoss" /\ res'.status = "ok")
      => \A k \in DOMAIN res'.gain :
           LET row == res'.gain[k]
               ids == {i \in DOMAIN purchases : purchases[i].name = row.name}
           IN IF ids = {} THEN row.cost_unit_price = 0
              ELSE \E i \in ids :
                     /\ \A j \in ids : /\ purchases[j].date <= purchases[i].date
                                       /\ (purchases[j].date = purchases[i].date => j <= i)
                     /\ row.cost_unit_price = purchases[i].unit_price ]_vars

\* a row took its cost from the earlier inserted of two lots of its name, the one with
\* the later date, at a price the other lot does not have
C24_Witness ==
  /\ res.op = "getGainLoss"
  /\ res.status = "ok"
  /\ \E k \in DOMAIN res.gain : \E lo, hi \in DOMAIN purchases :
       /\ lo < hi
       /\ purchases[lo].name = res.gain[k].name
       /\ purchases[hi].name = res.gain[k].name
       /\ purchases[lo].date > purchases[hi].date
       /\ purchases[lo].unit_price # purchases[hi].unit_price
       /\ res.gain[k].cost_unit_price = purchases[lo].unit_price

\* C25: when a sale is created while lots share its name and the last inserted of them
\* has an earlier date than another one, the creation decrements the last inserted lot
\* and getGainLoss takes the sale's cost from another one; such a state is reachable.
C25_CostLotIsNotStockLot ==
  [][ (/\ IsCreateSale(res')
       /\ res'.status = "ok"
       /\ \E lo, hi \in DOMAIN purchases :
            /\ lo < hi
            /\ purchases[lo].name = res'.name
            /\ purchases[hi].name = res'.name
            /\ \A i \in DOMAIN purchases : purchases[i].name = res'.name => i <= hi
            /\ purchases[lo].date > purchases[hi].date)
      => /\ purchases'[res'.lot].available_stock
              = purchases[res'.lot].available_stock - res'.pcs
         /\ CostLot(purchases', res'.name) # res'.lot ]_vars

\* a sale was created against one lot while getGainLoss prices it from the other lot
C25_Witness ==
  /\ IsCreateSale(res)
  /\ res.status = "ok"
  /\ Cardinality({i \in DOMAIN purchases : purchases[i].name = res.name}) = 2
  /\ CostLot(purchases, res.name) # res.lot
  /\ purchases[CostLot(purchases, res.name)].unit_price # purchases[res.lot].unit_price

\* ------------------------------------------------------------------ claims: store failures

\* C26: a debt deletion that fails at the store's DELETE step, and reports the error,
\* leaves the available_stock of every lot unchanged.
C26_FailedDeleteLeavesStock ==
  [][ (res'.op = "deleteDebt" /\ res'.status = "StorageError")
      => purchases' = purchases ]_vars

\* C28: when createRepayment reports an error to the caller, no repayment row has been
\* added.
C28_ErrorAddsNoRepayment ==
  [][ (res'.op = "createRepayment" /\ res'.status # "ok")
      => debt_repayments' = debt_repayments ]_vars


\* C29: in every reachable state every repayment row references an existing debt, also
\* after a debt that has repayments was deleted
C29_RepaymentsReferenceDebts ==
  \A r \in DOMAIN debt_repayments : debt_repayments[r].debt_id \in DOMAIN debts

\* C30: after any sequence of lot creations and sale creations and deletions every lot
\* satisfies available_stock <= pcs
C30_StockAtMostPcs ==
  \A i \in DOMAIN purchases : purchases[i].available_stock <= purchases[i].pcs

\* ------------------------------------------------------------------ claims: repayments in flight

\* C27: when the concurrent createRepayment requests on the one debt have all reported
\* success, the debt's balance_owed is its prior balance_owed (its total_price, nothing
\* having been repaid before) minus the sum of their amounts, and amount_payable_now is
\* its prior value (0) plus that sum.
C27_BothRepaymentsApplied ==
  (\A r \in 1..NumReq : reqs[r].pc = "done" /\ reqs[r].status = "ok" /\ reqs[r].debt_id = 1)
    => /\ debts[1].balance_owed = debts[1].total_price - SumPayAmounts(reqs, NumReq)
       /\ debts[1].amount_payable_now = 0 + SumPayAmounts(reqs, NumReq)

====
